---- MODULE Spec2Model ----
(***************************************************************************)
(* Request-dispatch layer of the Etherscan SDK (src/src/utils/http-client.ts)*)
(* as a timed state machine.  Time is discrete: one tick is 1/Window of the *)
(* 1000 ms rate-limit window.  Timers are countdowns in ticks; a timer that *)
(* is due (countdown 0) fires before time advances.                        *)
(***************************************************************************)
EXTENDS Integers, Sequences, FiniteSets, TLC

\* ---------------------------------------------------------------- bounds
NumCalls == 3        \* get/post calls made on the HttpClient under Spec
BurstCalls == 4      \* get/post calls made under BurstSpec
Window == 2          \* ticks in the 1000 ms of setTimeout(..., 1000)
MaxTimeout == 2      \* largest this.timeout, in ticks
MaxRate == 2         \* largest maxRequestsPerSecond
MaxParams == 2       \* most entries of the params of one get()
FacadeCalls == 2     \* endpoint calls dispatched under FacadeSpec

Calls == 1..(IF NumCalls >= BurstCalls THEN NumCalls ELSE BurstCalls)

\* null of rateLimitTimer / of a timer handle that is not armed
NoTimer == 0 - 1
\* age of a call whose transport has not started
NotStarted == 0 - 1

Terminal == {"Succeeded", "FailedTimeout", "FailedTransport", "FailedRemoteAPI"}
\* positions in which the transport step of a call is running
Running == {"InFlight", "Direct"}

Min(a, b) == IF a <= b THEN a ELSE b

\* How long the start of a call is remembered once the call has finished:
\* one window, and for the first call the whole length of a burst.
Horizon == (BurstCalls - 1) * Window
AgeCap(c) == IF c = 1 THEN Horizon ELSE Window

VARIABLES
    \* HttpClient fields
    timeout, rateLimitEnabled, maxRequestsPerSecond,
    requestQueue, processingQueue, requestsThisSecond, rateLimitTimer,
    \* the reset timers that are scheduled and have not fired, as countdowns
    \* in the order they were armed (rateLimitTimer is the handle the client
    \* keeps), and the ticks since the latest one was scheduled
    resetTimers, windowAge,
    \* per call: position of the call, its timers, its AbortController.
    \* Positions: NotCalled, Queued (in requestQueue), Waiting (dequeued,
    \* asleep until the window ends), InFlight (admitted by the limiter,
    \* transport running), Direct (transport running, limiter bypassed),
    \* then one of Terminal.
    st, sleepTimer, timeoutTimer, aborted,
    \* observation of the run: requests issued, promise settlements, ticks
    \* since the transport started
    fetches, settles, age,
    \* whether the starts of finished calls are still aged (BurstSpec)
    observeWindow,
    \* one call followed through an endpoint method, in detail
    method, response, dispatched, returned,
    \* the latest endpoint call that its argument checks refused
    refused,
    \* the EtherscanSDK object whose modules share this HttpClient
    sdk,
    \* the latest get(path, params) or post(path, data) and what it built
    lastGet

endpointVars == <<method, response, dispatched, returned, refused, sdk,
                  lastGet>>

vars == <<timeout, rateLimitEnabled, maxRequestsPerSecond,
          requestQueue, processingQueue, requestsThisSecond, rateLimitTimer,
          resetTimers, windowAge,
          st, sleepTimer, timeoutTimer, aborted, fetches, settles, age,
          observeWindow, method, response, dispatched, returned, refused,
          sdk, lastGet>>

\* The state as one value, so that the synchronous call chain
\* get -> request -> rateLimit -> processNextRequest -> executeRequest ->
\* makeRequest can be composed inside one step.
State ==
    [timeout |-> timeout, rateLimitEnabled |-> rateLimitEnabled,
     maxRequestsPerSecond |-> maxRequestsPerSecond,
     requestQueue |-> requestQueue, processingQueue |-> processingQueue,
     requestsThisSecond |-> requestsThisSecond,
     rateLimitTimer |-> rateLimitTimer,
     resetTimers |-> resetTimers, windowAge |-> windowAge,
     st |-> st, sleepTimer |-> sleepTimer, timeoutTimer |-> timeoutTimer,
     aborted |-> aborted, fetches |-> fetches, settles |-> settles,
     age |-> age, observeWindow |-> observeWindow]

Commit(s) ==
    /\ timeout' = s.timeout
    /\ rateLimitEnabled' = s.rateLimitEnabled
    /\ maxRequestsPerSecond' = s.maxRequestsPerSecond
    /\ requestQueue' = s.requestQueue
    /\ processingQueue' = s.processingQueue
    /\ requestsThisSecond' = s.requestsThisSecond
    /\ rateLimitTimer' = s.rateLimitTimer
    /\ resetTimers' = s.resetTimers
    /\ windowAge' = s.windowAge
    /\ st' = s.st
    /\ sleepTimer' = s.sleepTimer
    /\ timeoutTimer' = s.timeoutTimer
    /\ aborted' = s.aborted
    /\ fetches' = s.fetches
    /\ settles' = s.settles
    /\ age' = s.age
    /\ observeWindow' = s.observeWindow

\* ------------------------------------------------------ makeRequest, start
\* makeRequest up to `await fetch(...)`: arm the timeout timer, issue the
\* one outbound request.
StartTransport(s, c, position) ==
    [s EXCEPT !.st[c] = position,
              !.timeoutTimer[c] = s.timeout,
              !.fetches[c] = @ + 1,
              !.age[c] = 0]

\* Variant: a reset timer is scheduled at every admission.
ScheduleResetAlways(s) ==
    [s EXCEPT !.rateLimitTimer = Window,
              !.resetTimers = Append(@, Window),
              !.windowAge = 0]

\* Variant: the reset timer runs one tick short of a window.
ScheduleResetEarly(s) ==
    IF s.rateLimitTimer = NoTimer
    THEN [s EXCEPT !.rateLimitTimer = Window - 1,
                   !.resetTimers = Append(@, Window - 1),
                   !.windowAge = 0]
    ELSE s

\* `if (!this.rateLimitTimer) this.rateLimitTimer = setTimeout(..., 1000)`
ScheduleReset(s) ==
    IF s.rateLimitTimer = NoTimer
    THEN [s EXCEPT !.rateLimitTimer = Window,
                   !.resetTimers = Append(@, Window),
                   !.windowAge = 0]
    ELSE s

\* Variant: the admission is not counted.
AdmitUncounted(s, c) ==
    StartTransport(ScheduleReset(s), c, "InFlight")

\* executeRequest from the increment to `await fn()`.
Admit(s, c) ==
    LET s1 == [s EXCEPT !.requestsThisSecond = @ + 1]
    IN StartTransport(ScheduleReset(s1), c, "InFlight")

\* Variant: a call that finds the window full is rejected instead of waiting.
ExecuteRequestReject(s, c) ==
    IF s.requestsThisSecond >= s.maxRequestsPerSecond
    THEN [s EXCEPT !.st[c] = "FailedTransport", !.settles[c] = @ + 1]
    ELSE Admit(s, c)

\* Variant: the ceiling test is off by one (> for >=).
ExecuteRequestOffByOne(s, c) ==
    IF s.requestsThisSecond > s.maxRequestsPerSecond
    THEN [s EXCEPT !.st[c] = "Waiting", !.sleepTimer[c] = Window]
    ELSE Admit(s, c)

\* Variant: the ceiling test is missing, every call is admitted at once.
ExecuteRequestNeverWaits(s, c) == Admit(s, c)

\* executeRequest up to its first await.
ExecuteRequest(s, c) ==
    IF s.requestsThisSecond >= s.maxRequestsPerSecond
    THEN [s EXCEPT !.st[c] = "Waiting", !.sleepTimer[c] = Window]
    ELSE Admit(s, c)

\* Variant: pop() for shift(), the newest queued call goes first.
ProcessNextRequestLIFO(s) ==
    IF Len(s.requestQueue) = 0
    THEN [s EXCEPT !.processingQueue = FALSE]
    ELSE LET nextRequest == s.requestQueue[Len(s.requestQueue)]
             s1 == [s EXCEPT !.processingQueue = TRUE,
                             !.requestQueue = SubSeq(@, 1, Len(@) - 1)]
         IN ExecuteRequest(s1, nextRequest)

\* Variant: processingQueue is not set when a call is dequeued.
ProcessNextRequestNoFlag(s) ==
    IF Len(s.requestQueue) = 0
    THEN [s EXCEPT !.processingQueue = FALSE]
    ELSE LET nextRequest == Head(s.requestQueue)
             s1 == [s EXCEPT !.requestQueue = Tail(@)]
         IN ExecuteRequest(s1, nextRequest)

ProcessNextRequest(s) ==
    IF Len(s.requestQueue) = 0
    THEN [s EXCEPT !.processingQueue = FALSE]
    ELSE LET nextRequest == Head(s.requestQueue)
             s1 == [s EXCEPT !.processingQueue = TRUE,
                             !.requestQueue = Tail(@)]
         IN ExecuteRequest(s1, nextRequest)

\* Variant: every new call starts a drain loop of its own.
RateLimitAlwaysDrains(s, c) ==
    LET s1 == [s EXCEPT !.requestQueue = Append(@, c),
                        !.st[c] = "Queued"]
    IN ProcessNextRequest(s1)

RateLimit(s, c) ==
    LET s1 == [s EXCEPT !.requestQueue = Append(@, c),
                        !.st[c] = "Queued"]
    IN IF ~s1.processingQueue THEN ProcessNextRequest(s1) ELSE s1

\* Variant: the rateLimitEnabled test is dropped.
RequestAlwaysLimited(s, c) == RateLimit(s, c)

Request(s, c) ==
    IF s.rateLimitEnabled THEN RateLimit(s, c)
    ELSE StartTransport(s, c, "Direct")

\* Variant: switching the limiter off also clears the window counter.
SetRateLimitToClears(s, enabled, max) ==
    [s EXCEPT !.rateLimitEnabled = enabled,
              !.maxRequestsPerSecond = max,
              !.requestsThisSecond = IF enabled THEN @ ELSE 0]

\* setRateLimit(enabled, maxRequestsPerSecond)
SetRateLimitTo(s, enabled, max) ==
    [s EXCEPT !.rateLimitEnabled = enabled,
              !.maxRequestsPerSecond = max]

\* ------------------------------------------------------------ JSON values
\* Strings are sequences of characters so that startsWith and [0] are
\* computed, not assumed.
JNull == [t |-> "null"]
JStr(chars) == [t |-> "str", s |-> chars]
JNum(n) == [t |-> "num", n |-> n]
JArr(items) == [t |-> "arr", a |-> items]
JObj(fields) == [t |-> "obj", f |-> fields]
JBool(b) == [t |-> "bool", b |-> b]

NOTOK == <<"N", "O", "T", "O", "K">>
MsgNOTOK == JStr(NOTOK)
MsgBadRequest == JStr(NOTOK \o <<":", " ", "b", "a", "d", " ", "r", "e", "q", "u", "e", "s", "t">>)
MsgOK == JStr(<<"O", "K">>)
MsgNOTO == JStr(<<"N", "O", "T", "O">>)
MsgNoRecords == JStr(<<"N", "o", " ", "r", "e", "c", "o", "r", "d", "s">>)
MsgNumber == JNum(7)
Status0 == JStr(<<"0">>)
Status1 == JStr(<<"1">>)
ResERR1 == JStr(<<"E", "R", "R", "1">>)
Res123 == JStr(<<"1", "2", "3">>)
ResList == JArr(<<JObj([name |-> JStr(<<"T">>)])>>)
ResEmpty == JArr(<<>>)

Envelope(status, message, result) ==
    JObj([status |-> status, message |-> message, result |-> result])

Envelopes ==
    {Envelope(s, m, r) :
        s \in {Status0, Status1},
        m \in {MsgNOTOK, MsgBadRequest, MsgOK, MsgNOTO, MsgNoRecords, MsgNumber},
        r \in {ResERR1, Res123, ResList}}

JsonRpcBody == JObj([jsonrpc |-> JStr(<<"2", ".", "0">>), id |-> JNum(1),
                     result |-> JStr(<<"0", "x", "1">>)])

Bodies ==
    Envelopes \cup
    { JNull, Res123, ResEmpty, JsonRpcBody,
      Envelope(Status1, MsgOK, JNull),
      Envelope(Status1, MsgOK, ResEmpty),
      JObj([status |-> Status0, message |-> MsgNOTOK]),
      JObj([status |-> Status0, result |-> ResERR1]) }

\* What `await fetch(...)` followed by `await response.json()` can deliver,
\* short of an abort: a rejection, or a response whose body parses or not.
HttpStatuses == {200, 204, 404, 500}
Responses ==
    {[settled |-> "rejected", error |-> "TypeError"]} \cup
    {[settled |-> "resolved", status |-> h, parses |-> FALSE] :
        h \in HttpStatuses} \cup
    {[settled |-> "resolved", status |-> h, parses |-> TRUE, data |-> b] :
        h \in HttpStatuses, b \in Bodies}
\* One delivery for each kind of outcome of makeRequest (the non-2xx one
\* with a NOTOK body); EndpointSpec draws from all of Responses.
Deliveries ==
    { [settled |-> "rejected", error |-> "TypeError"],
      [settled |-> "resolved", status |-> 500, parses |-> TRUE,
       data |-> Envelope(Status0, MsgBadRequest, ResERR1)],
      [settled |-> "resolved", status |-> 200, parses |-> FALSE],
      [settled |-> "resolved", status |-> 200, parses |-> TRUE,
       data |-> Envelope(Status0, MsgBadRequest, ResERR1)],
      [settled |-> "resolved", status |-> 200, parses |-> TRUE,
       data |-> Envelope(Status1, MsgOK, Res123)] }
\* controller.abort() makes the pending fetch or json() reject with this.
AbortRejection == [settled |-> "rejected", error |-> "AbortError"]

\* ------------------------------------------------------ classification
ResponseOk(r) == r.status >= 200 /\ r.status <= 299

Truthy(d) ==
    CASE d.t \in {"null", "undefined"} -> FALSE
      [] d.t = "bool" -> d.b
      [] d.t = "str" -> Len(d.s) > 0
      [] d.t = "num" -> d.n # 0
      [] OTHER -> TRUE

\* `field in d` for d an object or an array (an array has no such key)
In(field, d) == d.t = "obj" /\ field \in DOMAIN d.f

isAPIResponse(d) ==
    /\ Truthy(d)
    /\ d.t \in {"obj", "arr"}
    /\ In("status", d) /\ In("message", d) /\ In("result", d)

\* Variant: equality for startsWith.
StartsWithExact(chars, prefix) == chars = prefix

StartsWith(chars, prefix) ==
    /\ Len(chars) >= Len(prefix)
    /\ SubSeq(chars, 1, Len(prefix)) = prefix

\* The try block of makeRequest: a returned value or a thrown error.
Thrown(e) == [thrown |-> TRUE, error |-> e]
Returned(d) == [thrown |-> FALSE, value |-> d]

NetworkError(m) == [name |-> "EtherscanNetworkError", message |-> m]
APIError(code, message) ==
    [name |-> "EtherscanAPIError", code |-> code, message |-> message]
RuntimeError(n) == [name |-> n]

\* Variant: the body is read and classified before response.ok is tested.
TryRequestBodyFirst(r) ==
    IF r.settled = "rejected" THEN Thrown(RuntimeError(r.error))
    ELSE IF ~r.parses THEN Thrown(RuntimeError("SyntaxError"))
    ELSE LET data == r.data IN
         IF isAPIResponse(data) /\ data.f.status = Status0
            /\ data.f.message.t = "str"
            /\ StartsWith(data.f.message.s, NOTOK)
         THEN Thrown(APIError(data.f.result, data.f.message))
         ELSE IF ~ResponseOk(r)
              THEN Thrown(NetworkError([why |-> "status",
                                        status |-> r.status]))
              ELSE Returned(data)

TryRequest(r) ==
    IF r.settled = "rejected" THEN Thrown(RuntimeError(r.error))
    ELSE IF ~ResponseOk(r)
         THEN Thrown(NetworkError([why |-> "status", status |-> r.status]))
    ELSE IF ~r.parses THEN Thrown(RuntimeError("SyntaxError"))
    ELSE LET data == r.data IN
         IF isAPIResponse(data) /\ data.f.status = Status0
         THEN IF data.f.message.t # "str"
              THEN Thrown(RuntimeError("TypeError"))
              ELSE IF StartsWith(data.f.message.s, NOTOK)
                   THEN Thrown(APIError(data.f.result, data.f.message))
                   ELSE Returned(data)
         ELSE Returned(data)

\* Variant: the AbortError branch is missing.
CatchRequestNoAbort(e, ms) ==
    IF e.name \in {"EtherscanAPIError", "EtherscanNetworkError"} THEN e
    ELSE NetworkError([why |-> "wrapped", error |-> e.name])

\* The catch block of makeRequest.
CatchRequest(e, ms) ==
    IF e.name \in {"EtherscanAPIError", "EtherscanNetworkError"} THEN e
    ELSE IF e.name = "AbortError"
         THEN NetworkError([why |-> "timeout", ms |-> ms])
         ELSE NetworkError([why |-> "wrapped", error |-> e.name])

\* Outcome of makeRequest for what the transport delivered.
MakeRequest(r, ms) ==
    LET t == TryRequest(r) IN
    IF t.thrown THEN Thrown(CatchRequest(t.error, ms)) ELSE t

TerminalOf(o) ==
    IF ~o.thrown THEN "Succeeded"
    ELSE IF o.error.name = "EtherscanAPIError" THEN "FailedRemoteAPI"
    ELSE IF o.error.message.why = "timeout" THEN "FailedTimeout"
    ELSE "FailedTransport"

\* Variant: the drain loop advances only after a call that succeeded.
FinishStallOnFailure(s, c, o) ==
    LET s1 == [s EXCEPT !.timeoutTimer[c] = NoTimer,
                        !.st[c] = TerminalOf(o),
                        !.settles[c] = @ + 1,
                        !.age[c] = IF s.observeWindow THEN Min(@, AgeCap(c))
                                   ELSE NotStarted]
    IN IF s.st[c] = "InFlight" /\ ~o.thrown
       THEN ProcessNextRequest(s1) ELSE s1

\* Variant: makeRequest has no finally, the timeout timer is left armed.
FinishKeepsTimer(s, c, o) ==
    LET s1 == [s EXCEPT !.st[c] = TerminalOf(o),
                        !.settles[c] = @ + 1,
                        !.age[c] = IF s.observeWindow THEN Min(@, AgeCap(c))
                                   ELSE NotStarted]
    IN IF s.st[c] = "InFlight" THEN ProcessNextRequest(s1) ELSE s1

\* makeRequest's finally, then executeRequest's resolve/reject and finally.
Finish(s, c, o) ==
    LET s1 == [s EXCEPT !.timeoutTimer[c] = NoTimer,
                        !.st[c] = TerminalOf(o),
                        !.settles[c] = @ + 1,
                        !.age[c] = IF s.observeWindow THEN Min(@, AgeCap(c))
                                   ELSE NotStarted]
    IN IF s.st[c] = "InFlight" THEN ProcessNextRequest(s1) ELSE s1

\* -------------------------------------------------------- endpoint facade
JUndefined == [t |-> "undefined"]
Pending == [thrown |-> FALSE, value |-> [t |-> "pending"]]
NoResponse == [settled |-> "none"]
Methods == {"getBalance", "getTokenInfo"}

\* `x.result` of a parsed body
Property(d, field) ==
    IF d.t \in {"null", "undefined"} THEN Thrown(RuntimeError("TypeError"))
    ELSE IF In(field, d) THEN Returned(d.f[field])
    ELSE Returned(JUndefined)

\* `x[0]`
First(d) ==
    IF d.t \in {"null", "undefined"} THEN Thrown(RuntimeError("TypeError"))
    ELSE IF d.t = "str" /\ Len(d.s) > 0 THEN Returned(JStr(<<d.s[1]>>))
    ELSE IF d.t = "arr" /\ Len(d.a) > 0 THEN Returned(d.a[1])
    ELSE Returned(JUndefined)

\* Variant: the envelope is returned as it came.
ReturnEnvelope(o) == o

\* `return response.result;` of the endpoint methods
ReturnResult(o) ==
    IF o.thrown THEN o ELSE Property(o.value, "result")

\* `return response.result[0];` of TokensModule.getTokenInfo
ReturnFirstResult(o) ==
    LET r == ReturnResult(o) IN IF r.thrown THEN r ELSE First(r.value)

EndpointReturn(m, o) ==
    IF m = "getTokenInfo" THEN ReturnFirstResult(o) ELSE ReturnResult(o)

\* ------------------------------------------------------- argument checks
ValidationError(m) == [name |-> "EtherscanValidationError", message |-> m]
PlainError(m) == [name |-> "Error", message |-> m]
Passed == [thrown |-> FALSE]
\* statement sequencing: the first throw ends the method
Then(a, b) == IF a.thrown THEN a ELSE b

\* a number that is not an integer (1.5)
JFraction == [t |-> "fraction"]

\* `params[field]`
Param(params, field) ==
    IF field \in DOMAIN params THEN params[field] ELSE JUndefined

RECURSIVE validateRequired(_, _)
validateRequired(params, requiredParams) ==
    IF requiredParams = <<>> THEN Passed
    ELSE LET v == Param(params, Head(requiredParams)) IN
         IF v = JUndefined \/ v = JNull \/ v = JStr(<<>>)
         THEN Thrown(ValidationError("Missing required parameter"))
         ELSE validateRequired(params, Tail(requiredParams))

HexDigits == {"0", "1", "2", "3", "4", "5", "6", "7", "8", "9",
              "a", "b", "c", "d", "e", "f", "A", "B", "C", "D", "E", "F"}

\* /^0x[a-fA-F0-9]{n}$/.test(chars)
HexRegexTest(v, n) ==
    /\ v.t = "str"
    /\ Len(v.s) = n + 2
    /\ v.s[1] = "0" /\ v.s[2] = "x"
    /\ \A i \in 3..(n + 2) : v.s[i] \in HexDigits

validateAddress(address) ==
    IF HexRegexTest(address, 40) THEN Passed
    ELSE Thrown(ValidationError("Invalid Ethereum address format"))

validateTxHash(txhash) ==
    IF HexRegexTest(txhash, 64) THEN Passed
    ELSE Thrown(ValidationError("Invalid transaction hash format"))

validateBlockNumber(blockNumber) ==
    IF blockNumber.t = "num" /\ blockNumber.n >= 0 THEN Passed
    ELSE Thrown(ValidationError("Invalid block number"))

\* `if (x !== undefined) this.validateBlockNumber(x)`
validateOptionalBlock(blockNumber) ==
    IF blockNumber # JUndefined THEN validateBlockNumber(blockNumber)
    ELSE Passed

RECURSIVE validateEach(_)
validateEach(addresses) ==
    IF addresses = <<>> THEN Passed
    ELSE Then(validateAddress(Head(addresses)), validateEach(Tail(addresses)))

\* The statements of an endpoint method that come before its
\* this.httpClient.get(...).
ArgumentChecks(m, p) ==
    CASE m = "getBalance" ->
           Then(validateRequired(p, <<"address">>),
                validateAddress(Param(p, "address")))
      [] m = "getTokenInfo" ->
           validateAddress(Param(p, "contractAddress"))
      [] m = "getBalanceMulti" ->
           Then(validateRequired(p, <<"addresses">>),
           Then(IF Param(p, "addresses").t # "arr"
                   \/ Len(Param(p, "addresses").a) = 0
                THEN Thrown(PlainError("Addresses must be a non-empty array"))
                ELSE Passed,
                validateEach(Param(p, "addresses").a)))
      [] m = "getTransactions" ->
           Then(validateRequired(p, <<"address">>),
           Then(validateAddress(Param(p, "address")),
           Then(validateOptionalBlock(Param(p, "startBlock")),
                validateOptionalBlock(Param(p, "endBlock")))))
      [] m = "getLogs" ->
           Then(validateRequired(p, <<"address">>),
           Then(validateAddress(Param(p, "address")),
           Then(validateOptionalBlock(Param(p, "startBlock")),
           Then(validateOptionalBlock(Param(p, "endBlock")),
                IF Truthy(Param(p, "topics"))
                   /\ Len(Param(p, "topics").a) > 3
                THEN Thrown(PlainError("Maximum of 3 topics supported"))
                ELSE Passed))))
      [] m = "getStatus" ->
           Then(validateRequired(p, <<"txhash">>),
                validateTxHash(Param(p, "txhash")))
      [] m = "getInternalTransactionsByBlockRange" ->
           Then(validateBlockNumber(Param(p, "startBlock")),
           Then(validateBlockNumber(Param(p, "endBlock")),
                IF Param(p, "startBlock").n > Param(p, "endBlock").n
                THEN Thrown(PlainError("Start block must be less than or equal to end block"))
                ELSE Passed))

\* Arguments the endpoint methods are called with.
Repeat(ch, n) == [i \in 1..n |-> ch]
AddrA == JStr(<<"0", "x">> \o Repeat("a", 40))
AddrF == JStr(<<"0", "x">> \o Repeat("F", 40))
AddrShort == JStr(<<"0", "x">> \o Repeat("a", 39))
AddrNotHex == JStr(<<"0", "x">> \o Repeat("g", 40))
TxHash == JStr(<<"0", "x">> \o Repeat("9", 64))
Topic == JStr(<<"0", "x", "d", "d">>)
Addresses == {AddrA, AddrShort, AddrNotHex, JStr(<<>>), JUndefined}
Blocks == {JUndefined, JNum(2), JNum(0 - 1), JFraction}

ParamsOf(m) ==
    CASE m = "getBalance" ->
           {[address |-> a] : a \in Addresses}
           \cup {[tag |-> JStr(<<"l", "a", "t", "e", "s", "t">>)]}
      [] m = "getTokenInfo" ->
           {[contractAddress |-> a] : a \in Addresses}
      [] m = "getBalanceMulti" ->
           {[addresses |-> a] :
               a \in {JUndefined, JNull, AddrA, JArr(<<>>), JArr(<<AddrA>>),
                      JArr(<<AddrA, AddrF>>), JArr(<<AddrA, AddrShort>>)}}
      [] m = "getTransactions" ->
           {[address |-> AddrA, startBlock |-> b, endBlock |-> JNum(2)] :
               b \in Blocks}
           \cup {[address |-> AddrNotHex, startBlock |-> JNum(0 - 1)]}
      [] m = "getLogs" ->
           {[address |-> AddrA, startBlock |-> b, topics |-> JArr(Repeat(Topic, n))] :
               b \in {JNum(0), JFraction}, n \in {0, 3, 4}}
           \cup {[address |-> AddrA], [startBlock |-> JNum(0)]}
      [] m = "getStatus" ->
           {[txhash |-> h] : h \in {TxHash, AddrA, JNull}}
      [] m = "getInternalTransactionsByBlockRange" ->
           {[startBlock |-> JNum(b), endBlock |-> JNum(e)] :
               b \in {0 - 1, 0, 2}, e \in {0, 2}}
           \cup {[startBlock |-> JNum(0), endBlock |-> JFraction]}

NoRefusal == [method |-> "none"]
CheckedMethods == {"getBalance", "getTokenInfo", "getBalanceMulti",
                   "getTransactions", "getLogs", "getStatus",
                   "getInternalTransactionsByBlockRange"}

\* Variant: the request is dispatched before the arguments are checked.
EndpointMethodDispatchFirst(s, m, p, c) ==
    [state |-> Request(s, c), outcome |-> ArgumentChecks(m, p)]

\* An endpoint method up to its `await this.httpClient.get(...)`.
EndpointMethod(s, m, p, c) ==
    LET v == ArgumentChecks(m, p) IN
    IF v.thrown THEN [state |-> s, outcome |-> v]
    ELSE [state |-> Request(s, c), outcome |-> Pending]

\* --------------------------------------------------------- get(path, params)
Digit(d) == <<"0", "1", "2", "3", "4", "5", "6", "7", "8", "9">>[d + 1]

RECURSIVE Digits(_)
Digits(n) == IF n < 10 THEN <<Digit(n)>>
             ELSE Digits(n \div 10) \o <<Digit(n % 10)>>

\* String(value)
String(v) ==
    CASE v.t = "str" -> v.s
      [] v.t = "num" -> IF v.n < 0 THEN <<"-">> \o Digits(0 - v.n)
                        ELSE Digits(v.n)
      [] v.t = "bool" -> IF v.b THEN <<"t", "r", "u", "e">>
                         ELSE <<"f", "a", "l", "s", "e">>
      [] v.t = "null" -> <<"n", "u", "l", "l">>
      [] v.t = "undefined" -> <<"u", "n", "d", "e", "f", "i", "n", "e", "d">>

Letters ==
    {"a", "b", "c", "d", "e", "f", "g", "h", "i", "j", "k", "l", "m", "n",
     "o", "p", "q", "r", "s", "t", "u", "v", "w", "x", "y", "z",
     "A", "B", "C", "D", "E", "F", "G", "H", "I", "J", "K", "L", "M", "N",
     "O", "P", "Q", "R", "S", "T", "U", "V", "W", "X", "Y", "Z"}
\* the characters encodeURIComponent leaves as they are
Unreserved ==
    Letters \cup {"0", "1", "2", "3", "4", "5", "6", "7", "8", "9"}
            \cup {"-", "_", ".", "!", "~", "*", "'", "(", ")"}

\* the UTF-8 code of a reserved character, in hexadecimal
HexCode(ch) ==
    CASE ch = " " -> <<"2", "0">>
      [] ch = "#" -> <<"2", "3">>
      [] ch = "%" -> <<"2", "5">>
      [] ch = "&" -> <<"2", "6">>
      [] ch = "+" -> <<"2", "B">>
      [] ch = "," -> <<"2", "C">>
      [] ch = "/" -> <<"2", "F">>
      [] ch = ":" -> <<"3", "A">>
      [] ch = "=" -> <<"3", "D">>
      [] ch = "?" -> <<"3", "F">>

\* a UTF-16 surrogate without its pair ("\uD800"): encodeURIComponent
\* throws URIError on a string that has one
LoneSurrogate == "\\uD800"
Malformed(chars) == \E i \in 1..Len(chars) : chars[i] = LoneSurrogate

RECURSIVE encodeURIComponent(_)
encodeURIComponent(chars) ==
    IF chars = <<>> THEN <<>>
    ELSE (IF Head(chars) \in Unreserved THEN <<Head(chars)>>
          ELSE <<"%">> \o HexCode(Head(chars)))
         \o encodeURIComponent(Tail(chars))

\* params is the sequence Object.entries(params) of <<key, value>> pairs.
RECURSIVE Join(_, _)
Join(pieces, sep) ==
    IF pieces = <<>> THEN <<>>
    ELSE IF Len(pieces) = 1 THEN pieces[1]
    ELSE pieces[1] \o sep \o Join(Tail(pieces), sep)

Defined(entry) == entry[2] # JUndefined
EncodeEntry(entry) ==
    encodeURIComponent(entry[1]) \o <<"=">>
        \o encodeURIComponent(String(entry[2]))

\* Variant: entries with a falsy value are dropped.
QueryParamsTruthy(params) ==
    LET kept == SelectSeq(params, LAMBDA e : Truthy(e[2]))
    IN Join([i \in 1..Len(kept) |-> EncodeEntry(kept[i])], <<"&">>)

\* .filter(value !== undefined).map(key=value).join('&')
QueryParams(params) ==
    LET kept == SelectSeq(params, Defined)
    IN Join([i \in 1..Len(kept) |-> EncodeEntry(kept[i])], <<"&">>)

\* what building the query string of get(path, params) throws, if anything
QueryThrows(params) ==
    IF \E i \in 1..Len(params) :
          /\ Defined(params[i])
          /\ Malformed(params[i][1]) \/ Malformed(String(params[i][2]))
    THEN Thrown(RuntimeError("URIError"))
    ELSE Passed

\* a BigInt value: JSON.stringify throws TypeError on it
JBigInt == [t |-> "bigint"]
\* what JSON.stringify(data) of post(path, data) throws, if anything
StringifyThrows(data) ==
    IF \E f \in DOMAIN data.f : data.f[f].t = "bigint"
    THEN Thrown(RuntimeError("TypeError"))
    ELSE Passed

Includes(chars, ch) == \E i \in 1..Len(chars) : chars[i] = ch

\* the URL of get(path, params) after this.baseUrl
UrlSuffix(path, params) ==
    LET queryParams == QueryParams(params) IN
    path \o (IF queryParams # <<>>
             THEN (IF Includes(path, "?") THEN <<"&">> ELSE <<"?">>)
                  \o queryParams
             ELSE <<>>)

\* paths, keys and values get() is called with
Paths == {<<>>, <<"?", "a", "=", "1">>}
Keys == {<<"a", "d", "d", "r", "e", "s", "s">>, <<"t", "a", "g">>,
         <<"k", "=", "&">>}
Values == {JUndefined, JStr(<<"0", "x", "a", "b", "c">>), JStr(<<>>),
           JNum(0), JNum(25), JBool(FALSE), JStr(<<"a", " ", "&", "=">>),
           JStr(<<"a", LoneSurrogate>>)}
PostBodies == {JObj([guid |-> JStr(<<"g">>)]),
               JObj([guid |-> JStr(<<"g">>), runs |-> JBigInt])}
DistinctKeys(params) ==
    \A i, j \in 1..Len(params) : i # j => params[i][1] # params[j][1]
ParamBags ==
    {p \in UNION {[1..n -> Keys \X Values] : n \in 0..MaxParams} :
        DistinctKeys(p)}
NoGet == [path |-> <<>>, made |-> FALSE]

\* ------------------------------------------------------------ EtherscanSDK
\* Delays are in ticks: 30000 ms is 30 windows.
DEFAULT_TIMEOUT == 30 * Window
DEFAULT_MAX_REQUESTS_PER_SECOND == 5
\* a value of the Network enum, or any other non-empty string
Net(name) == [t |-> "net", name |-> name]
DEFAULT_NETWORK == Net("eth-mainnet")
SUPPORTED_CHAINS == {Net("eth-mainnet"), Net("eth-sepolia"), Net("arb-mainnet")}
MISSING_API_KEY == ValidationError("API key is required")
INVALID_NETWORK == ValidationError("Invalid network")

\* `a || b`
Or(a, b) == IF Truthy(a) THEN a ELSE b

\* V1_API_URLS[network], V2_API_URL and V2_API_CHAIN_IDS[network] for the
\* networks of SUPPORTED_CHAINS; a key the table does not have reads as
\* undefined, which a template literal prints as "undefined".
Undefined ==
    <<"u", "n", "d", "e", "f", "i", "n", "e", "d">>
V1_API_URLS(network) ==
    CASE network = Net("eth-mainnet") ->
           <<"h", "t", "t", "p", "s", ":", "/", "/", "a", "p",
             "i", ".", "e", "t", "h", "e", "r", "s", "c", "a",
             "n", ".", "i", "o", "/", "a", "p", "i">>
      [] network = Net("eth-sepolia") ->
           <<"h", "t", "t", "p", "s", ":", "/", "/", "a", "p",
             "i", "-", "s", "e", "p", "o", "l", "i", "a", ".",
             "e", "t", "h", "e", "r", "s", "c", "a", "n", ".",
             "i", "o", "/", "a", "p", "i">>
      [] network = Net("arb-mainnet") ->
           <<"h", "t", "t", "p", "s", ":", "/", "/", "a", "p",
             "i", ".", "a", "r", "b", "i", "s", "c", "a", "n",
             ".", "i", "o", "/", "a", "p", "i">>
      [] OTHER -> Undefined
V2_API_URL ==
    <<"h", "t", "t", "p", "s", ":", "/", "/", "a", "p", "i", ".", "e",
      "t", "h", "e", "r", "s", "c", "a", "n", ".", "i", "o", "/", "v",
      "2", "/", "a", "p", "i">>
V2_API_CHAIN_IDS(network) ==
    CASE network = Net("eth-mainnet") -> <<"1">>
      [] network = Net("eth-sepolia") -> <<"1", "1", "1", "5", "5", "1", "1", "1">>
      [] network = Net("arb-mainnet") -> <<"4", "2", "1", "6", "1">>
      [] OTHER -> Undefined
V1 == JStr(<<"v", "1">>)
V2 == JStr(<<"v", "2">>)

\* resolveAPIURL(network), with this.version
resolveAPIURL(version, network) ==
    IF version = V1 THEN V1_API_URLS(network)
    ELSE V2_API_URL \o <<"?", "c", "h", "a", "i", "n", "i", "d", "=">>
             \o V2_API_CHAIN_IDS(network)


\* The options objects the constructor is given (JUndefined: omitted).
Options ==
    [apiKey : {JUndefined, JStr(<<>>), JStr(<<"K">>)},
     network : {JUndefined, JStr(<<>>), Net("eth-sepolia"), Net("bogus")},
     timeout : {JUndefined, JNum(MaxTimeout)},
     rateLimitEnabled : {JUndefined, JBool(TRUE), JBool(FALSE)},
     maxRequestsPerSecond : {JUndefined, JNum(1), JNum(MaxRate)}]

NoSdk == [constructed |-> FALSE, attempted |-> FALSE]
\* this.httpClient is the HttpClient the modules were given
Shared == [shared |-> TRUE]
\* the module objects of an EtherscanSDK
ModuleNames == {"accounts", "contracts", "transactions", "blocks", "logs",
                "proxy", "tokens", "gas", "stats"}
\* new XModule(this.httpClient, this.apiKey), for each of them
NewModules(client) == [m \in ModuleNames |-> client]
\* no call has been made through a module yet
NoneYet == [module |-> "none", others |-> FALSE]

\* new HttpClient({baseUrl, timeout}): the field initialisers and the
\* constructor
NewHttpClient(s, t) ==
    [s EXCEPT !.timeout = Or(t, JNum(30 * Window)).n,
              !.rateLimitEnabled = TRUE,
              !.maxRequestsPerSecond = 5,
              !.requestQueue = <<>>,
              !.processingQueue = FALSE,
              !.requestsThisSecond = 0,
              !.rateLimitTimer = NoTimer,
              !.resetTimers = <<>>,
              !.windowAge = NotStarted]

Failed(s, o, e) ==
    [state |-> s,
     sdk |-> [constructed |-> FALSE, attempted |-> TRUE, options |-> o,
              error |-> e]]

\* Variant: the network is not validated.
ConstructUnvalidated(s, o) ==
    IF ~Truthy(o.apiKey) THEN Failed(s, o, MISSING_API_KEY)
    ELSE LET network == Or(o.network, DEFAULT_NETWORK)
             version == Or(Param(o, "version"), V2)
             s1 == NewHttpClient(s, Or(o.timeout, JNum(DEFAULT_TIMEOUT)))
             s2 == IF o.rateLimitEnabled # JUndefined
                   THEN SetRateLimitTo(s1, o.rateLimitEnabled.b,
                            Or(o.maxRequestsPerSecond,
                               JNum(DEFAULT_MAX_REQUESTS_PER_SECOND)).n)
                   ELSE s1
         IN [state |-> s2,
             sdk |-> [constructed |-> TRUE, attempted |-> TRUE,
                      options |-> o, network |-> network,
                      version |-> version,
                      baseUrl |-> resolveAPIURL(version, network),
                      httpClient |-> Shared,
                      modules |-> NewModules(Shared), via |-> NoneYet]]

\* new EtherscanSDK(options)
Construct(s, o) ==
    IF ~Truthy(o.apiKey) THEN Failed(s, o, MISSING_API_KEY)
    ELSE LET network == Or(o.network, DEFAULT_NETWORK) IN
         IF network \notin SUPPORTED_CHAINS
         THEN Failed(s, o, INVALID_NETWORK)
         ELSE LET version == Or(Param(o, "version"), V2)
                  s1 == NewHttpClient(s, Or(o.timeout, JNum(DEFAULT_TIMEOUT)))
                  s2 == IF o.rateLimitEnabled # JUndefined
                        THEN SetRateLimitTo(s1, o.rateLimitEnabled.b,
                                 Or(o.maxRequestsPerSecond,
                                    JNum(DEFAULT_MAX_REQUESTS_PER_SECOND)).n)
                        ELSE s1
              IN [state |-> s2,
                  sdk |-> [constructed |-> TRUE, attempted |-> TRUE,
                           options |-> o, network |-> network,
                           version |-> version,
                           baseUrl |-> resolveAPIURL(version, network),
                           httpClient |-> Shared,
                           modules |-> NewModules(Shared), via |-> NoneYet]]

\* Variant: setTimeout also rebuilds the accounts module on the new client.
SetTimeoutRebuildsAccounts(k, t) ==
    IF t <= 0 THEN k
    ELSE LET client == [shared |-> FALSE, timeout |-> t,
                        rateLimitEnabled |-> TRUE,
                        maxRequestsPerSecond |-> 5]
         IN [k EXCEPT !.httpClient = client, !.modules["accounts"] = client]

\* sdk.setTimeout(t): this.httpClient is replaced by a new HttpClient; the
\* modules keep the one they were constructed with.
SetTimeoutTo(k, t) ==
    IF t <= 0 THEN k
    ELSE [k EXCEPT !.httpClient =
             [shared |-> FALSE, timeout |-> t, rateLimitEnabled |-> TRUE,
              maxRequestsPerSecond |-> 5]]

\* ------------------------------------------------------------------ actions
\* Nothing called yet.
Idle(observe) ==
    /\ requestQueue = <<>>
    /\ processingQueue = FALSE
    /\ requestsThisSecond = 0
    /\ rateLimitTimer = NoTimer
    /\ resetTimers = <<>>
    /\ windowAge = NotStarted
    /\ st = [c \in Calls |-> "NotCalled"]
    /\ sleepTimer = [c \in Calls |-> NoTimer]
    /\ timeoutTimer = [c \in Calls |-> NoTimer]
    /\ aborted = [c \in Calls |-> FALSE]
    /\ fetches = [c \in Calls |-> 0]
    /\ settles = [c \in Calls |-> 0]
    /\ age = [c \in Calls |-> NotStarted]
    /\ observeWindow = observe
    /\ method = "none"
    /\ response = NoResponse
    /\ dispatched = Pending
    /\ returned = Pending
    /\ refused = NoRefusal
    /\ sdk = NoSdk
    /\ lastGet = NoGet

InitWith(observe) ==
    /\ timeout \in 1..MaxTimeout
    /\ rateLimitEnabled \in BOOLEAN
    /\ maxRequestsPerSecond \in 1..MaxRate
    /\ Idle(observe)

Init == InitWith(FALSE)

\* The next call that has not been made yet (calls are named in the order
\* in which they are made).
NextCall(c) ==
    /\ st[c] = "NotCalled"
    /\ \A d \in Calls : d < c => st[d] # "NotCalled"

\* get(path, params) / post(path, data)
Call(c) ==
    /\ NextCall(c)
    /\ Commit(Request(State, c))
    /\ UNCHANGED endpointVars

\* The transport step settles: fetch rejects, or the response arrives and
\* its body is read.
Settle(c) ==
    /\ st[c] \in Running
    /\ \E r \in Deliveries :
          Commit(Finish(State, c, MakeRequest(r, timeout)))
    /\ UNCHANGED endpointVars

\* Variant: a timed-out call is sent again.
AbortRetry(s, c) ==
    LET s1 == [s EXCEPT !.aborted[c] = TRUE, !.timeoutTimer[c] = NoTimer]
    IN IF s.st[c] \in Running THEN StartTransport(s1, c, s.st[c]) ELSE s1

\* The callback of makeRequest's setTimeout: controller.abort().
Abort(s, c) ==
    LET s1 == [s EXCEPT !.aborted[c] = TRUE, !.timeoutTimer[c] = NoTimer]
    IN IF s.st[c] \in Running
       THEN Finish(s1, c, MakeRequest(AbortRejection, s.timeout))
       ELSE s1

TimeoutFire(c) ==
    /\ timeoutTimer[c] = 0
    /\ Commit(Abort(State, c))
    /\ UNCHANGED endpointVars

\* The callback of the reset timer.
ResetWindow(s) ==
    [s EXCEPT !.requestsThisSecond = 0, !.rateLimitTimer = NoTimer,
              !.resetTimers = Tail(@)]

\* The reset timer armed first is due.
ResetDue == resetTimers # <<>> /\ Head(resetTimers) = 0

WindowReset ==
    /\ ResetDue
    /\ Commit(ResetWindow(State))
    /\ UNCHANGED endpointVars

\* executeRequest resumes after `await new Promise(r => setTimeout(r, 1000))`.
ResumeRequest(s, c) ==
    Admit([s EXCEPT !.sleepTimer[c] = NoTimer, !.requestsThisSecond = 0], c)

\* Timers of equal delay fire in the order they were armed, and a reset
\* timer that is live was armed before the sleep began.
WakeUp(c) ==
    /\ sleepTimer[c] = 0
    /\ ~ResetDue
    /\ Commit(ResumeRequest(State, c))
    /\ UNCHANGED endpointVars

\* (a call that repeats the current configuration changes nothing)
SetRateLimit(enabled, max) ==
    /\ <<enabled, max>> # <<rateLimitEnabled, maxRequestsPerSecond>>
    /\ Commit(SetRateLimitTo(State, enabled, max))
    /\ UNCHANGED endpointVars

Countdown(t) == IF t > 0 THEN t - 1 ELSE t

\* One tick of time passes; every due timer has fired.
Tick ==
    /\ ~ResetDue
    /\ \A c \in Calls : sleepTimer[c] # 0 /\ timeoutTimer[c] # 0
    /\ rateLimitTimer' = Countdown(rateLimitTimer)
    /\ resetTimers' = [i \in DOMAIN resetTimers |->
                          Countdown(resetTimers[i])]
    /\ windowAge' = IF windowAge = NotStarted THEN NotStarted
                    ELSE Min(windowAge + 1, Window)
    /\ sleepTimer' = [c \in Calls |-> Countdown(sleepTimer[c])]
    /\ timeoutTimer' = [c \in Calls |-> Countdown(timeoutTimer[c])]
    /\ age' = [c \in Calls |->
                 IF age[c] = NotStarted THEN NotStarted
                 ELSE Min(age[c] + 1,
                          IF st[c] \in Running THEN MaxTimeout + 1
                          ELSE AgeCap(c))]
    /\ UNCHANGED <<timeout, rateLimitEnabled, maxRequestsPerSecond,
                   requestQueue, processingQueue, requestsThisSecond,
                   st, aborted, fetches, settles, observeWindow>>
    /\ UNCHANGED endpointVars

Next ==
    \/ \E c \in 1..NumCalls : Call(c)
    \/ \E c \in Calls : Settle(c)
    \/ \E c \in Calls : TimeoutFire(c)
    \/ WindowReset
    \/ \E c \in Calls : WakeUp(c)
    \/ \E e \in BOOLEAN, m \in 1..MaxRate : SetRateLimit(e, m)
    \/ Tick

Spec == Init /\ [][Next]_vars

\* Timers that are due fire and time passes; a transport step need not
\* settle by itself, its timeout timer ends it.
Fairness ==
    /\ WF_vars(Tick)
    /\ WF_vars(WindowReset)
    /\ \A c \in Calls : WF_vars(TimeoutFire(c))
    /\ \A c \in Calls : WF_vars(WakeUp(c))

\* Calls made with the limiter on, which may be switched off at any time.
LiveInit ==
    /\ InitWith(FALSE)
    /\ rateLimitEnabled
    /\ timeout = 1
    /\ maxRequestsPerSecond = 1

LiveNext ==
    \/ \E c \in 1..NumCalls : Call(c)
    \/ \E c \in Calls : Settle(c)
    \/ \E c \in Calls : TimeoutFire(c)
    \/ WindowReset
    \/ \E c \in Calls : WakeUp(c)
    \/ SetRateLimit(FALSE, maxRequestsPerSecond)
    \/ Tick

LiveSpec == LiveInit /\ [][LiveNext]_vars /\ Fairness

\* Rate limiting enabled and never reconfigured: a load of BurstCalls calls.
BurstInit == InitWith(TRUE) /\ rateLimitEnabled

BurstNext ==
    \/ \E c \in 1..BurstCalls : Call(c)
    \/ \E c \in Calls : Settle(c)
    \/ \E c \in Calls : TimeoutFire(c)
    \/ WindowReset
    \/ \E c \in Calls : WakeUp(c)
    \/ Tick

BurstSpec == BurstInit /\ [][BurstNext]_vars

\* One call made through an endpoint method and followed to its return.
\* (with arguments that pass the method's checks)
EndpointCall(m) ==
    /\ NextCall(1)
    /\ Commit(Request(State, 1))
    /\ method' = m
    /\ UNCHANGED <<response, dispatched, returned, refused, sdk, lastGet>>

Deliver(r, s) ==
    /\ response' = r
    /\ dispatched' = MakeRequest(r, s.timeout)
    /\ returned' = EndpointReturn(method, MakeRequest(r, s.timeout))
    /\ UNCHANGED <<method, refused, sdk, lastGet>>

EndpointSettle ==
    /\ st[1] \in Running
    /\ \E r \in Responses :
          /\ Commit(Finish(State, 1, MakeRequest(r, timeout)))
          /\ Deliver(r, State)

EndpointTimeout ==
    /\ st[1] \in Running
    /\ timeoutTimer[1] = 0
    /\ Commit(Abort(State, 1))
    /\ Deliver(AbortRejection, State)

EndpointNext ==
    \/ \E m \in Methods : EndpointCall(m)
    \/ EndpointSettle
    \/ EndpointTimeout
    \/ WindowReset
    \/ Tick

EndpointSpec == Init /\ [][EndpointNext]_vars

\* Calls made through the endpoint methods with arguments of every kind:
\* a call is either refused by the method's argument checks or handed to
\* the dispatcher.
Invoke(c, m) ==
    /\ NextCall(c)
    /\ \E p \in ParamsOf(m) :
          LET e == EndpointMethod(State, m, p, c) IN
          /\ Commit(e.state)
          /\ refused' = IF e.outcome.thrown
                        THEN [method |-> m, error |-> e.outcome.error]
                        ELSE refused
    /\ UNCHANGED <<method, response, dispatched, returned, sdk, lastGet>>

FacadeNext ==
    \/ \E c \in 1..FacadeCalls, m \in CheckedMethods : Invoke(c, m)
    \/ \E c \in Calls : Settle(c)
    \/ \E c \in Calls : TimeoutFire(c)
    \/ WindowReset
    \/ \E c \in Calls : WakeUp(c)
    \/ Tick

FacadeSpec == Init /\ [][FacadeNext]_vars

\* The life of one EtherscanSDK object: construction, setTimeout, calls
\* made through its modules.  No time passes under SdkSpec.
NoClient ==
    /\ timeout = 0
    /\ rateLimitEnabled = TRUE
    /\ maxRequestsPerSecond = 0

SdkInit == NoClient /\ Idle(FALSE)

\* new EtherscanSDK(o), for o one of the given options objects
ConstructFrom(options) ==
    /\ ~sdk.constructed
    /\ \E o \in options :
          /\ Commit(Construct(State, o).state)
          /\ sdk' = Construct(State, o).sdk
    /\ UNCHANGED <<method, response, dispatched, returned, refused, lastGet>>

SdkConstruct == ConstructFrom(Options)

SdkSetTimeout(t) ==
    /\ sdk.constructed
    /\ sdk' = SetTimeoutTo(sdk, t)
    /\ Commit(State)
    /\ UNCHANGED <<method, response, dispatched, returned, refused, lastGet>>

\* a call through sdk.accounts, sdk.contracts, ...: the module hands the
\* request to the HttpClient it holds (calls on the client the
\* constructor made are followed; sdk.via remembers the module of the
\* latest call and whether an earlier call went through another module)
ModuleCall(c, m) ==
    /\ sdk.constructed
    /\ sdk.modules[m] = Shared
    /\ NextCall(c)
    /\ Commit(Request(State, c))
    /\ sdk' = [sdk EXCEPT !.via =
                   [module |-> m,
                    others |-> @.others \/ @.module \notin {"none", m}]]
    /\ UNCHANGED <<method, response, dispatched, returned, refused, lastGet>>

SdkNext ==
    \/ SdkConstruct
    \/ \E t \in 0..MaxTimeout : SdkSetTimeout(t)
    \/ \E c \in 1..FacadeCalls, m \in ModuleNames : ModuleCall(c, m)
    \/ \E c \in Calls : Settle(c)

SdkSpec == SdkInit /\ [][SdkNext]_vars

\* The GET requests of the endpoint methods of a constructed SDK, for each
\* API version and network: the URL is the client's baseUrl followed by
\* what get('', apiParams) appends.
VersionOptions ==
    [apiKey : {JStr(<<"K">>)},
     network : {JUndefined, Net("eth-sepolia"), Net("arb-mainnet")},
     version : {JUndefined, V1, V2},
     timeout : {JUndefined},
     rateLimitEnabled : {JUndefined},
     maxRequestsPerSecond : {JUndefined, JNum(1)}]

\* this.createParams(module, action, params), as Object.entries lists it
createParams(module, action, apiKey, params) ==
    << <<(<<"m", "o", "d", "u", "l", "e">>), JStr(module)>>,
       <<(<<"a", "c", "t", "i", "o", "n">>), JStr(action)>>,
       <<(<<"a", "p", "i", "k", "e", "y">>), apiKey>> >> \o params

Latest == JStr(<<"l", "a", "t", "e", "s", "t">>)

\* the apiParams of getBalance and of getStatus
ApiParams(m, p, apiKey) ==
    CASE m = "getBalance" ->
           createParams(<<"a", "c", "c", "o", "u", "n", "t">>,
                        <<"b", "a", "l", "a", "n", "c", "e">>, apiKey,
                        << <<(<<"a", "d", "d", "r", "e", "s", "s">>),
                             Param(p, "address")>>,
                           <<(<<"t", "a", "g">>),
                             Or(Param(p, "tag"), Latest)>> >>)
      [] m = "getStatus" ->
           createParams(<<"t", "r", "a", "n", "s", "a", "c", "t", "i", "o", "n">>,
                        <<"g", "e", "t", "s", "t", "a", "t", "u", "s">>, apiKey,
                        << <<(<<"t", "x", "h", "a", "s", "h">>),
                             Param(p, "txhash")>> >>)

ModuleOf(m) == IF m = "getBalance" THEN "accounts" ELSE "transactions"
GetMethods == {"getBalance", "getStatus"}

\* the URL get(path, params) hands to request
Url(baseUrl, path, params) == baseUrl \o UrlSuffix(path, params)

\* sdk.accounts.getBalance(p) / sdk.transactions.getStatus(p), with
\* arguments that pass the method's checks
EndpointGet(c, m) ==
    /\ sdk.constructed
    /\ sdk.modules[ModuleOf(m)] = Shared
    /\ NextCall(c)
    /\ \E p \in ParamsOf(m) :
          /\ ~ArgumentChecks(m, p).thrown
          /\ LET apiParams == ApiParams(m, p, sdk.options.apiKey) IN
             lastGet' = [made |-> TRUE, verb |-> "get", path |-> <<>>,
                         params |-> apiParams, outcome |-> Passed,
                         queryParams |-> QueryParams(apiParams),
                         url |-> Url(sdk.baseUrl, <<>>, apiParams)]
    /\ Commit(Request(State, c))
    /\ UNCHANGED <<method, response, dispatched, returned, refused, sdk>>

UrlNext ==
    \/ ConstructFrom(VersionOptions)
    \/ \E c \in 1..FacadeCalls, m \in GetMethods : EndpointGet(c, m)
    \/ \E c \in Calls : Settle(c)

UrlSpec == SdkInit /\ [][UrlNext]_vars

\* get(path, params) with parameters of every kind: the URL is built and
\* handed to request, or building it throws.  One get or post is followed.
Get(c) ==
    /\ NextCall(c)
    /\ ~lastGet.made
    /\ \E path \in Paths, params \in ParamBags :
          IF QueryThrows(params).thrown
          THEN /\ lastGet' = [made |-> TRUE, verb |-> "get", path |-> path,
                              params |-> params,
                              outcome |-> QueryThrows(params)]
               /\ Commit(State)
          ELSE /\ lastGet' = [made |-> TRUE, verb |-> "get", path |-> path,
                              params |-> params, outcome |-> Passed,
                              queryParams |-> QueryParams(params),
                              url |-> UrlSuffix(path, params)]
               /\ Commit(Request(State, c))
    /\ UNCHANGED <<method, response, dispatched, returned, refused, sdk>>

\* post(path, data)
Post(c) ==
    /\ NextCall(c)
    /\ ~lastGet.made
    /\ \E path \in Paths, data \in PostBodies :
          /\ lastGet' = [made |-> TRUE, verb |-> "post", path |-> path,
                         data |-> data, outcome |-> StringifyThrows(data),
                         url |-> path]
          /\ IF StringifyThrows(data).thrown
             THEN Commit(State)
             ELSE Commit(Request(State, c))
    /\ UNCHANGED <<method, response, dispatched, returned, refused, sdk>>

QueryInit == InitWith(FALSE) /\ timeout = 1 /\ maxRequestsPerSecond = 1

QueryNext ==
    \/ Get(1)
    \/ Post(1)
    \/ Settle(1)

QuerySpec == QueryInit /\ [][QueryNext]_vars

\* ------------------------------------------------------------------ claims
RecentStarts == {c \in Calls : age[c] # NotStarted /\ age[c] < Window}

\* C1: with rate limiting enabled and maxRequestsPerSecond constant (every
\* state of BurstSpec), no Window consecutive ticks (1000 ms) contain more
\* than maxRequestsPerSecond transport starts.
RateLimitCeiling == Cardinality(RecentStarts) <= maxRequestsPerSecond

\* Calls are numbered in the order they are made, so a call with a smaller
\* number was appended to the queue earlier.
Overtaken(c) ==
    \E d \in Calls : d < c /\ st[d] \in {"Queued", "Waiting"}

\* C2: a call that came through the pending queue starts its transport only
\* when no call appended before it is still queued or waiting, and leaves
\* the queue only when no earlier call is still in it.
FIFOFairness ==
    [][\A c \in Calls :
          /\ (st'[c] = "InFlight" /\ st[c] # "InFlight") => ~Overtaken(c)
          /\ (st'[c] = "Waiting" /\ st[c] # "Waiting") => ~Overtaken(c)]_vars

FIFOWitness ==
    \E c, d, e \in Calls :
        /\ c < d /\ d < e
        /\ st[c] \in Terminal /\ st[d] = "InFlight" /\ st[e] = "Queued"
        /\ requestQueue = <<e>>

\* C3: a call is never in flight longer than timeout; the timeout timer
\* fires exactly timeout after the transport started, the aborted call ends
\* as FailedTimeout, and that outcome is never replaced by another.
TimeoutFiring ==
    [][\A c \in Calls :
          /\ st'[c] \in Running => age'[c] <= timeout'
          /\ (aborted'[c] /\ ~aborted[c]) =>
                (st[c] \in Running /\ age[c] = timeout)
          /\ aborted'[c] => (st'[c] = "FailedTimeout" /\ settles'[c] = 1)
          /\ st[c] = "FailedTimeout" => st'[c] = "FailedTimeout"]_vars

TimeoutWitness ==
    \E c \in Calls :
        aborted[c] /\ st[c] = "FailedTimeout" /\ timeout = MaxTimeout

\* The response is 2xx and its body parsed.
Parsed2xx ==
    /\ response.settled = "resolved"
    /\ response.status \in 200..299
    /\ response.parses

HasEnvelopeFields(d) ==
    d.t = "obj" /\ {"status", "message", "result"} \subseteq DOMAIN d.f

BeginsWithNOTOK(m) ==
    /\ m.t = "str"
    /\ Len(m.s) >= 5
    /\ <<m.s[1], m.s[2], m.s[3], m.s[4], m.s[5]>> = <<"N", "O", "T", "O", "K">>

\* C4: a 2xx response whose body has status, message and result, with
\* status "0" and a message beginning with NOTOK, fails with
\* EtherscanAPIError whose code is the body's result and whose message is
\* the body's message, at the dispatcher and at the endpoint method.
RemoteAPIClassification ==
    (/\ Parsed2xx
     /\ HasEnvelopeFields(response.data)
     /\ response.data.f.status = JStr(<<"0">>)
     /\ BeginsWithNOTOK(response.data.f.message))
    => /\ dispatched.thrown
       /\ dispatched.error =
             [name |-> "EtherscanAPIError",
              code |-> response.data.f.result,
              message |-> response.data.f.message]
       /\ returned = dispatched

RemoteAPIWitness ==
    /\ Parsed2xx
    /\ response.data = Envelope(Status0, MsgBadRequest, ResERR1)
    /\ dispatched.thrown
    /\ dispatched.error.code = JStr(<<"E", "R", "R", "1">>)

\* C5: a response with a non-2xx status fails with EtherscanNetworkError
\* carrying the status, whatever its body.
NonOkPassthrough ==
    (response.settled = "resolved" /\ response.status \notin 200..299)
    => /\ dispatched.thrown
       /\ dispatched.error =
             [name |-> "EtherscanNetworkError",
              message |-> [why |-> "status", status |-> response.status]]
       /\ returned = dispatched

NonOkWitness ==
    /\ response.settled = "resolved"
    /\ response.status = 500
    /\ response.parses
    /\ response.data = Envelope(Status0, MsgBadRequest, ResERR1)
    /\ dispatched.thrown
    /\ dispatched.error.name = "EtherscanNetworkError"

OkEnvelope ==
    /\ Parsed2xx
    /\ HasEnvelopeFields(response.data)
    /\ response.data.f.status = JStr(<<"1">>)
    /\ response.data.f.message = JStr(<<"O", "K">>)

\* C6 as stated: every endpoint method given a 2xx {status:"1",
\* message:"OK", result:R} succeeds with R.
SuccessPassthroughAll ==
    OkEnvelope => returned = [thrown |-> FALSE, value |-> response.data.f.result]

\* C6: every endpoint method other than getTokenInfo, given a 2xx
\* {status:"1", message:"OK", result:R}, succeeds with R; getTokenInfo
\* succeeds with the first element of R when R is a non-empty array or string.
SuccessPassthrough ==
    OkEnvelope =>
        LET R == response.data.f.result IN
        /\ method # "getTokenInfo" =>
              returned = [thrown |-> FALSE, value |-> R]
        /\ (method = "getTokenInfo" /\ R.t = "arr" /\ Len(R.a) > 0) =>
              returned = [thrown |-> FALSE, value |-> R.a[1]]
        /\ (method = "getTokenInfo" /\ R.t = "str" /\ Len(R.s) > 0) =>
              returned = [thrown |-> FALSE, value |-> JStr(<<R.s[1]>>)]

SuccessWitness ==
    /\ OkEnvelope
    /\ method = "getBalance"
    /\ response.data.f.result = JStr(<<"1", "2", "3">>)
    /\ returned = [thrown |-> FALSE, value |-> JStr(<<"1", "2", "3">>)]

\* C7: a call issues at most one outbound request, and exactly one once it
\* has been admitted, has bypassed the limiter, or has finished; none while
\* it is queued or waiting.
OneRequestPerCall ==
    \A c \in Calls :
        fetches[c] = IF st[c] \in Running \cup Terminal THEN 1 ELSE 0

OneRequestWitness ==
    \E a, b, c \in Calls :
        /\ st[a] = "FailedTimeout" /\ fetches[a] = 1
        /\ st[b] = "FailedTransport" /\ fetches[b] = 1
        /\ st[c] = "FailedRemoteAPI" /\ fetches[c] = 1

\* Queued -> Admitted -> InFlight -> terminal: a queued call is first in
\* the queue, then possibly waiting for the window; admission (the counter
\* increment) and the start of the transport are one step; a call made with
\* the limiter off enters at the transport step.
LifecycleStep(a, b) ==
    \/ a = b
    \/ a = "NotCalled" /\ b \in {"Queued", "Waiting", "InFlight", "Direct"}
    \/ a = "Queued" /\ b \in {"Waiting", "InFlight"}
    \/ a = "Waiting" /\ b = "InFlight"
    \/ a \in Running /\ b \in Terminal

\* C8: a call only moves forward along queued, admitted, in flight, one
\* terminal state; its promise is settled exactly when it becomes terminal,
\* once, and a terminal call never changes.
CallLifecycle ==
    [][\A c \in Calls :
          /\ LifecycleStep(st[c], st'[c])
          /\ settles'[c] = IF st'[c] \in Terminal THEN 1 ELSE 0
          /\ (st'[c] = "InFlight" /\ st[c] # "InFlight")
                => requestsThisSecond' >= 1]_vars

LifecycleWitness ==
    \E c, d, e \in Calls :
        /\ st[c] \in Terminal /\ settles[c] = 1
        /\ st[d] = "Waiting"
        /\ st[e] = "Queued"

\* C9: a call made while rateLimitEnabled is false is in flight at once with
\* its one request issued, is not appended to the queue, and leaves the
\* queue, the drain flag, the window counter and the reset timer as they
\* were; it never waits.
BypassImmediate ==
    [][\A c \in Calls :
          /\ (st[c] = "NotCalled" /\ st'[c] # "NotCalled" /\ ~rateLimitEnabled)
                => /\ st'[c] = "Direct"
                   /\ fetches'[c] = 1
                   /\ timeoutTimer'[c] = timeout
                   /\ sleepTimer'[c] = NoTimer
                   /\ UNCHANGED <<requestQueue, processingQueue,
                                  requestsThisSecond, rateLimitTimer>>
          /\ st[c] = "Direct" => st'[c] \in Terminal \cup {"Direct"}]_vars

BypassWitness ==
    \E c, d \in Calls :
        /\ st[c] = "Direct"
        /\ st[d] = "InFlight"
        /\ Len(requestQueue) >= 1

CallVars == <<st, sleepTimer, timeoutTimer, aborted, fetches, settles, age,
              requestQueue>>

\* C10: a step that changes rateLimitEnabled or maxRequestsPerSecond leaves
\* every call where it was (position, timers, request, queue), and every
\* admission that follows has requestsThisSecond within the ceiling in
\* force at that admission.
ReconfigurationIsolation ==
    [][/\ (rateLimitEnabled' # rateLimitEnabled
           \/ maxRequestsPerSecond' # maxRequestsPerSecond)
          => UNCHANGED CallVars
       /\ \A c \in Calls :
             (st'[c] = "InFlight" /\ st[c] # "InFlight")
                => requestsThisSecond' <= maxRequestsPerSecond']_vars

\* The ceiling was lowered below the admissions of the current window
\* while a call admitted under the old ceiling is in flight and another
\* is still queued.
ReconfigurationWitness ==
    /\ requestsThisSecond > maxRequestsPerSecond
    /\ \E c, d \in Calls :
          /\ st[c] = "InFlight"
          /\ st[d] = "Queued"

\* C11: with rate limiting enabled and maxRequestsPerSecond = k constant
\* (every behaviour of BurstSpec), the i-th call starts its transport no
\* earlier than floor((i-1)/k) windows after the first call's transport
\* started; in particular for a burst of calls all made at once.
BurstSpreading ==
    [][\A c \in Calls :
          (st'[c] = "InFlight" /\ st[c] # "InFlight")
             => age'[1] >= ((c - 1) \div maxRequestsPerSecond) * Window]_vars

\* Under ceiling 1 the last call of the load starts exactly at its bound.
BurstWitness ==
    /\ maxRequestsPerSecond = 1
    /\ st[BurstCalls] = "InFlight"
    /\ age[BurstCalls] = 0
    /\ age[1] = (BurstCalls - 1) * Window

TypedKinds == {"EtherscanValidationError", "EtherscanAPIError",
               "EtherscanNetworkError"}

\* C12: every failure of a call made through an endpoint method, whether
\* its arguments were refused or its request failed, is one of
\* EtherscanValidationError, EtherscanAPIError, EtherscanNetworkError.
TypedFailures ==
    /\ refused # NoRefusal => refused.error.name \in TypedKinds
    /\ returned.thrown => returned.error.name \in TypedKinds

DispatcherVars == <<requestQueue, processingQueue, requestsThisSecond,
                    rateLimitTimer, st, fetches, timeoutTimer, sleepTimer>>

\* C13: a step in which an endpoint call is refused by its argument checks
\* issues no request and leaves the queue, the drain flag, the window
\* counter, the reset timer and every call as they were.
ValidationBeforeDispatch ==
    [][refused' # refused => UNCHANGED DispatcherVars]_vars

\* A malformed block number was refused while the call made before it is
\* in flight inside a live window.
ValidationWitness ==
    /\ refused # NoRefusal
    /\ refused.method = "getTransactions"
    /\ refused.error = ValidationError("Invalid block number")
    /\ st[1] = "InFlight"
    /\ st[2] = "NotCalled"
    /\ requestsThisSecond = 1
    /\ rateLimitTimer = 1
    /\ fetches = [c \in Calls |-> IF c = 1 THEN 1 ELSE 0]

\* C14: once sdk.setTimeout(t) has been called with t a positive integer,
\* a call made through a module starts its transport with the timeout timer
\* armed at t.
SetTimeoutApplies ==
    [][\A c \in Calls :
          (/\ sdk.constructed
           /\ ~sdk.httpClient.shared
           /\ st[c] = "NotCalled"
           /\ st'[c] \in Running)
          => timeoutTimer'[c] = sdk.httpClient.timeout]_vars

Given(v) == v # JUndefined

\* C15: a constructed SDK dispatches with the timeout option (30000 ms
\* when omitted), with rate limiting enabled unless rateLimitEnabled is
\* false, and with ceiling maxRequestsPerSecond (5 when omitted).
OptionsApplied ==
    sdk.constructed =>
        LET o == sdk.options IN
        /\ timeout = IF Given(o.timeout) THEN o.timeout.n ELSE 30 * Window
        /\ rateLimitEnabled = (o.rateLimitEnabled # JBool(FALSE))
        /\ maxRequestsPerSecond =
              IF Given(o.maxRequestsPerSecond)
              THEN o.maxRequestsPerSecond.n ELSE 5

NothingCreated ==
    /\ ~sdk.constructed
    /\ NoClient
    /\ \A c \in Calls : st[c] = "NotCalled" /\ fetches[c] = 0

EmptyApiKey(o) == o.apiKey = JUndefined \/ o.apiKey = JStr(<<>>)
Members == {Net("eth-mainnet"), Net("eth-sepolia"), Net("arb-mainnet")}

CharOf(code) ==
    CASE code = <<"2", "0">> -> " "
      [] code = <<"2", "3">> -> "#"
      [] code = <<"2", "5">> -> "%"
      [] code = <<"2", "6">> -> "&"
      [] code = <<"2", "B">> -> "+"
      [] code = <<"2", "C">> -> ","
      [] code = <<"2", "F">> -> "/"
      [] code = <<"3", "A">> -> ":"
      [] code = <<"3", "D">> -> "="
      [] code = <<"3", "F">> -> "?"
      [] OTHER -> "invalid"

RECURSIVE PercentDecode(_)
PercentDecode(chars) ==
    IF chars = <<>> THEN <<>>
    ELSE IF Head(chars) = "%"
         THEN IF Len(chars) < 3 THEN <<"invalid">>
              ELSE <<CharOf(SubSeq(chars, 2, 3))>>
                       \o PercentDecode(SubSeq(chars, 4, Len(chars)))
         ELSE <<Head(chars)>> \o PercentDecode(Tail(chars))

\* position of the first ch in chars, or 0
RECURSIVE IndexOf(_, _, _)
IndexOf(chars, ch, i) ==
    IF i > Len(chars) THEN 0
    ELSE IF chars[i] = ch THEN i ELSE IndexOf(chars, ch, i + 1)

RECURSIVE Split(_, _)
Split(chars, sep) ==
    LET i == IndexOf(chars, sep, 1) IN
    IF i = 0 THEN <<chars>>
    ELSE <<SubSeq(chars, 1, i - 1)>>
             \o Split(SubSeq(chars, i + 1, Len(chars)), sep)

ParsePair(piece) ==
    LET i == IndexOf(piece, "=", 1) IN
    IF i = 0 THEN <<"invalid">>
    ELSE <<PercentDecode(SubSeq(piece, 1, i - 1)),
           PercentDecode(SubSeq(piece, i + 1, Len(piece)))>>

ParseQuery(query) ==
    IF query = <<>> THEN <<>>
    ELSE LET pieces == Split(query, "&")
         IN [i \in 1..Len(pieces) |-> ParsePair(pieces[i])]

\* the text of a parameter value
TextOf(v) ==
    IF v = JStr(<<"0", "x", "a", "b", "c">>) THEN <<"0", "x", "a", "b", "c">>
    ELSE IF v = JStr(<<>>) THEN <<>>
    ELSE IF v = JNum(0) THEN <<"0">>
    ELSE IF v = JNum(25) THEN <<"2", "5">>
    ELSE IF v = JBool(FALSE) THEN <<"f", "a", "l", "s", "e">>
    ELSE IF v = JStr(<<"a", " ", "&", "=">>) THEN <<"a", " ", "&", "=">>
    ELSE <<"other">>

RECURSIVE Expected(_)
Expected(params) ==
    IF params = <<>> THEN <<>>
    ELSE (IF Head(params)[2] = [t |-> "undefined"] THEN <<>>
          ELSE <<<<Head(params)[1], TextOf(Head(params)[2])>>>>)
         \o Expected(Tail(params))

\* C17: the query string of get(path, params) reads back as the pairs
\* key = text of value of exactly the entries of params whose value is not
\* undefined, in the order of params; 0, false and the empty string are
\* kept, and a key or value with reserved characters is percent-encoded.
QueryEncoding ==
    (lastGet.made /\ lastGet.verb = "get" /\ ~lastGet.outcome.thrown) =>
        /\ ParseQuery(lastGet.queryParams) = Expected(lastGet.params)
        /\ \A i \in 1..Len(lastGet.queryParams) :
              lastGet.queryParams[i] \notin {" ", "#", ",", "/", ":", "?"}

\* get("", {address: "0xabc", tag: undefined})
QueryWitness ==
    /\ lastGet.made
    /\ lastGet.verb = "get"
    /\ lastGet.path = <<>>
    /\ lastGet.params =
          << <<(<<"a", "d", "d", "r", "e", "s", "s">>),
               JStr(<<"0", "x", "a", "b", "c">>)>>,
             <<(<<"t", "a", "g">>), [t |-> "undefined"]>> >>
    /\ lastGet.queryParams =
          <<"a", "d", "d", "r", "e", "s", "s", "=", "0", "x", "a", "b", "c">>
    /\ fetches[1] = 1

\* C18: every failure that get or post delivers to its caller, whether it
\* arises while the request is built or in the transport step, is an
\* EtherscanAPIError or an EtherscanNetworkError.
DispatcherFailuresTyped ==
    /\ (lastGet.made /\ lastGet.outcome.thrown) =>
          lastGet.outcome.error.name
              \in {"EtherscanAPIError", "EtherscanNetworkError"}
    /\ dispatched.thrown =>
          dispatched.error.name
              \in {"EtherscanAPIError", "EtherscanNetworkError"}

\* C19: every call appended to the pending queue eventually starts its
\* transport and reaches a terminal state, whether the calls ahead of it
\* succeed or fail and whatever setRateLimit is called meanwhile.
DrainProgress ==
    \A c \in Calls :
        (st[c] \in {"Queued", "Waiting"})
            ~> (st[c] \in Terminal /\ fetches[c] = 1)

\* The head of the queue failed, the limiter has been switched off, the
\* call queued behind the head is in flight and one more is still queued.
DrainWitness ==
    /\ ~rateLimitEnabled
    /\ st[1] \in {"FailedTimeout", "FailedTransport", "FailedRemoteAPI"}
    /\ st[2] = "InFlight"
    /\ requestQueue = <<3>>

Admitted(c) == st'[c] = "InFlight" /\ st[c] # "InFlight"

\* C20: just after the increment that admits a call, requestsThisSecond is
\* at most maxRequestsPerSecond, whatever calls, timer firings and
\* setRateLimit calls came before; a call that finds the counter at or
\* above the ceiling is put to sleep instead, and is admitted after the
\* sleep as the first call of a fresh count.
AdmissionCeiling ==
    [][\A c \in Calls :
          /\ Admitted(c) =>
                /\ requestsThisSecond' <= maxRequestsPerSecond'
                /\ requestsThisSecond' =
                      IF st[c] = "Waiting" THEN 1 ELSE requestsThisSecond + 1
          /\ (st[c] \in {"NotCalled", "Queued"}
              /\ st'[c] \notin {"NotCalled", "Queued", "Direct"})
                => (st'[c] = "Waiting"
                       <=> requestsThisSecond >= maxRequestsPerSecond)]_vars

\* A call has just been admitted at the ceiling after the ceiling was
\* raised, and another one is queued behind it.
AdmissionWitness ==
    /\ maxRequestsPerSecond = MaxRate
    /\ requestsThisSecond = MaxRate
    /\ rateLimitTimer = 1
    /\ \E c, d \in Calls :
          /\ st[c] = "InFlight" /\ age[c] = 0
          /\ st[d] = "Queued"

\* C21: at most one reset timer is live at any time; one is scheduled only
\* while rateLimitTimer is null, and it fires one window (1000 ms) after it
\* was scheduled, setting requestsThisSecond to 0 and rateLimitTimer to null.
SingleResetTimer ==
    [][/\ Len(resetTimers') <= 1
       /\ (rateLimitTimer' = NoTimer) <=> (resetTimers' = <<>>)
       /\ Len(resetTimers') > Len(resetTimers)
             => /\ rateLimitTimer = NoTimer
                /\ resetTimers' = <<Window>>
       /\ Len(resetTimers') < Len(resetTimers)
             => /\ Head(resetTimers) = 0
                /\ windowAge = Window
                /\ requestsThisSecond' = 0
                /\ rateLimitTimer' = NoTimer]_vars

\* Two calls were admitted in one window, part of which has passed, and
\* one reset timer is live.
SingleResetWitness ==
    /\ requestsThisSecond = 2
    /\ resetTimers = <<Window - 1>>
    /\ windowAge = 1

\* C22: a call that finds requestsThisSecond at or above the ceiling is
\* suspended for no longer than the time left on the live reset timer and
\* never for more than one window, and is admitted after the suspension
\* with requestsThisSecond counted from 0.
WindowRemainderSleep ==
    [][\A c \in Calls :
          /\ (st'[c] = "Waiting" /\ st[c] # "Waiting")
                => /\ sleepTimer'[c] <= Window
                   /\ resetTimers' # <<>>
                         => sleepTimer'[c] <= Head(resetTimers')
          /\ (st[c] = "Waiting" /\ st'[c] = "InFlight")
                => requestsThisSecond' = 1]_vars

\* C23: a 2xx response whose parsed body is not a {status, message, result}
\* body with status "0" and a message beginning with NOTOK is returned by
\* the dispatcher as it was parsed, whatever its shape.
ParsedBodyPassthrough ==
    (/\ Parsed2xx
     /\ ~(/\ HasEnvelopeFields(response.data)
          /\ response.data.f.status = JStr(<<"0">>)
          /\ BeginsWithNOTOK(response.data.f.message)))
    => dispatched = [thrown |-> FALSE, value |-> response.data]

\* C24: after construction and after any setTimeout, the nine modules hold
\* one and the same HttpClient, so calls made through different modules are
\* admitted under one ceiling (no time passes under SdkSpec: all of them
\* fall in one window) and leave the one queue in the order they were made.
SharedDispatcher ==
    sdk.constructed =>
        /\ \A m \in ModuleNames : sdk.modules[m] = sdk.modules["accounts"]
        /\ (sdk.via.module # "none") <=> (st[1] # "NotCalled")
        /\ rateLimitEnabled =>
              Cardinality({c \in Calls : fetches[c] = 1})
                  <= maxRequestsPerSecond
        /\ \A c, d \in Calls :
              (c < d /\ st[c] \in {"Queued", "Waiting"})
                  => st[d] \in {"NotCalled", "Queued"}

\* After a setTimeout, the call made through sdk.stats is queued behind the
\* call in flight that was made through another module.
SharedDispatcherWitness ==
    /\ sdk.constructed
    /\ ~sdk.httpClient.shared
    /\ sdk.via.module = "stats"
    /\ sdk.via.others
    /\ st[1] = "InFlight"
    /\ st[2] = "Queued"
    /\ requestQueue = <<2>>

PastDequeue == {c \in Calls : st[c] \in {"Waiting", "InFlight"}}

\* C25: of the calls that entered the pending queue at most one is past
\* dequeue and not yet terminal (asleep for the window or in flight), and
\* every call still queued waits behind such a call made before it.
SerialDrain ==
    /\ Cardinality(PastDequeue) <= 1
    /\ \A c \in Calls :
          st[c] = "Queued" => \E d \in PastDequeue : d < c

\* A call has been in flight for the whole timeout while the call queued
\* behind it is kept waiting although the window counter is below the
\* ceiling.
SerialDrainWitness ==
    /\ timeout = MaxTimeout
    /\ st[1] = "InFlight"
    /\ age[1] = MaxTimeout
    /\ st[2] = "Queued"
    /\ requestsThisSecond < maxRequestsPerSecond

ConfigurationChanged ==
    \/ rateLimitEnabled' # rateLimitEnabled
    \/ maxRequestsPerSecond' # maxRequestsPerSecond

\* C27: a setRateLimit step changes nothing but rateLimitEnabled and
\* maxRequestsPerSecond; and a call that is queued or asleep is never
\* cancelled or released by it: it leaves the queue only through the drain
\* loop and starts its transport only through the counter increment,
\* also when the limiter has been switched off meanwhile.
SetRateLimitFrame ==
    [][/\ ConfigurationChanged =>
             UNCHANGED <<timeout, requestQueue, processingQueue,
                         requestsThisSecond, rateLimitTimer, resetTimers,
                         st, sleepTimer, timeoutTimer, aborted, fetches,
                         settles>>
       /\ \A c \in Calls :
             /\ st[c] = "Queued" => st'[c] \in {"Queued", "Waiting", "InFlight"}
             /\ st[c] = "Waiting" => st'[c] \in {"Waiting", "InFlight"}
             /\ (st[c] = "Queued" /\ st'[c] = "InFlight")
                   => requestsThisSecond' = requestsThisSecond + 1
             /\ (st[c] = "Queued" /\ st'[c] # "Queued")
                   => \E d \in Calls : st[d] = "InFlight" /\ st'[d] \in Terminal]_vars

\* The limiter was switched off while call 2 was queued behind call 1; call
\* 3, made after that, has started while call 2 is still queued.
SetRateLimitWitness ==
    /\ ~rateLimitEnabled
    /\ st[1] = "InFlight"
    /\ st[2] = "Queued"
    /\ st[3] = "Direct"
    /\ requestQueue = <<2>>
    /\ processingQueue

\* C28: a call has a timeout timer exactly while its transport is running;
\* the timer counts from the start of the transport, and a call is aborted
\* only out of its transport step (never while queued or asleep, never once
\* terminal).
TimeoutTimerScope ==
    \A c \in Calls :
        /\ (timeoutTimer[c] # NoTimer) <=> (st[c] \in Running)
        /\ st[c] \in Running => timeoutTimer[c] + age[c] = timeout
        /\ aborted[c] => st[c] = "FailedTimeout"

\* A call made under timeout 1 has been asleep for a whole window, longer
\* than the timeout, with no timeout timer and without being aborted.
TimeoutScopeWitness ==
    /\ timeout = 1
    /\ \E c \in Calls :
          /\ st[c] = "Waiting"
          /\ sleepTimer[c] = 0
          /\ timeoutTimer[c] = NoTimer
          /\ ~aborted[c]

\* C30: processingQueue is true exactly when a dequeued call has not
\* finished; the queue holds exactly the calls that are queued, in the
\* order they were made, and is empty whenever processingQueue is false.
DrainFlag ==
    /\ processingQueue <=> (\E c \in Calls : st[c] \in {"Waiting", "InFlight"})
    /\ requestQueue # <<>> => processingQueue
    /\ \A i \in 1..Len(requestQueue) : st[requestQueue[i]] = "Queued"
    /\ \A c \in Calls :
          st[c] = "Queued" => \E i \in 1..Len(requestQueue) : requestQueue[i] = c
    /\ \A i, j \in 1..Len(requestQueue) :
          i < j => requestQueue[i] < requestQueue[j]

\* The drain loop has ended: two calls went through the limiter in this
\* window and finished, the queue is empty and the flag is down.
DrainFlagWitness ==
    /\ rateLimitEnabled
    /\ ~processingQueue
    /\ requestQueue = <<>>
    /\ requestsThisSecond = 2
    /\ st[1] \in Terminal
    /\ st[2] \in Terminal

\* C26: with rate limiting enabled and the ceiling constant (BurstSpec),
\* requestsThisSecond counts the admissions since it was last set to 0
\* (each admission adds one, nothing else changes it but a reset) and is
\* never above the ceiling, so at most maxRequestsPerSecond calls are
\* admitted between two resets; and a reset timer is scheduled, by an
\* admission, no sooner than one window after the one before it.
WindowedAdmissions ==
    [][/\ requestsThisSecond' <= maxRequestsPerSecond'
       /\ IF \E c \in Calls : Admitted(c)
          THEN requestsThisSecond' =
                  IF \E c \in Calls : st[c] = "Waiting" /\ Admitted(c)
                  THEN 1 ELSE requestsThisSecond + 1
          ELSE requestsThisSecond' \in {requestsThisSecond, 0}
       /\ Len(resetTimers') > Len(resetTimers)
             => /\ \E c \in Calls : Admitted(c)
                /\ windowAge \in {NotStarted, Window}]_vars

\* Calls 1 and 2 filled the first window under ceiling 2; call 3 has just
\* opened the second one, a full window after the first was opened.
WindowedWitness ==
    /\ maxRequestsPerSecond = 2
    /\ st[1] \in Terminal /\ st[2] \in Terminal
    /\ age[1] = Window
    /\ st[3] = "InFlight" /\ age[3] = 0
    /\ windowAge = 0
    /\ requestsThisSecond = 1

Count(chars, ch) == Cardinality({i \in 1..Len(chars) : chars[i] = ch})

\* C29: the URL of a GET issued by an endpoint method has exactly one "?",
\* and what follows it reads back as the "&"-joined pairs chainid (under
\* version v2), module, action, apikey and the call's own parameters.
WellFormedUrl ==
    (sdk.constructed /\ lastGet.made) =>
        LET url == lastGet.url
            q == IndexOf(url, "?", 1)
            own == [i \in 1..Len(lastGet.params) |->
                       <<lastGet.params[i][1], lastGet.params[i][2].s>>]
            chainid == <<"c", "h", "a", "i", "n", "i", "d">>
            id == CASE sdk.network = Net("eth-mainnet") -> <<"1">>
                    [] sdk.network = Net("eth-sepolia") ->
                          <<"1", "1", "1", "5", "5", "1", "1", "1">>
                    [] sdk.network = Net("arb-mainnet") ->
                          <<"4", "2", "1", "6", "1">>
        IN /\ Count(url, "?") = 1
           /\ ParseQuery(SubSeq(url, q + 1, Len(url))) =
                 (IF sdk.version = JStr(<<"v", "1">>) THEN <<>>
                  ELSE << <<chainid, id>> >>) \o own

====
